---- MODULE Spec2Model ----
(***************************************************************************)
(* Model of Live.py: the position-sizing engine (liquidation_price,        *)
(* margin_per_unit, max_units_affordable, per_unit_risk,                   *)
(* safe_units_by_risk, recommend_units), the price feed                    *)
(* (LiveData.fetch_price, fetch_fx_rate) and the polling loop of main.     *)
(*                                                                         *)
(* Python floats are binary floating-point numbers: every arithmetic       *)
(* operation returns the exact result rounded to the nearest representable *)
(* value, ties to even.  The model keeps that behaviour with a significand *)
(* of Precision bits (53 in CPython) and an unbounded exponent, so that    *)
(* absorption (1 - x = 1 for small x) and quotient/product round trips are *)
(* visible.  A float is a normalised fraction <<n, d>> with d > 0.         *)
(* Overflow to infinity and underflow to subnormals are outside the model. *)
(***************************************************************************)
EXTENDS Integers, Sequences, FiniteSets, TLC

\* ------------------------------------------------------------------ bounds
Precision == 4
MaxEquity == 7
MaxPrice == 5
MaxLeverage == 3
MaxRiskQuarters == 2
MaxLive == 4

\* ------------------------------------------------------- float arithmetic
Abs(x) == IF x < 0 THEN -x ELSE x

RECURSIVE GCD(_, _)
GCD(a, b) == IF b = 0 THEN a ELSE GCD(b, a % b)

RECURSIVE Pow2(_)
Pow2(k) == IF k = 0 THEN 1 ELSE 2 * Pow2(k - 1)

\* the fraction n/d in lowest terms with a positive denominator (d # 0)
Norm(n, d) ==
    LET g == GCD(Abs(n), Abs(d))
        s == IF d < 0 THEN -1 ELSE 1
    IN  <<(s * n) \div g, (s * d) \div g>>

F(k) == <<k, 1>>
Zero == F(0)
One == F(1)

FLt(a, b) == a[1] * b[2] < b[1] * a[2]
FLe(a, b) == a[1] * b[2] <= b[1] * a[2]
FGt(a, b) == FLt(b, a)
FGe(a, b) == FLe(b, a)

\* round-half-to-even of the positive fraction n/d to an integer
RoundHalfEven(n, d) ==
    LET q == n \div d
        r == n % d
    IN  IF 2 * r < d THEN q
        ELSE IF 2 * r > d THEN q + 1
        ELSE IF q % 2 = 0 THEN q ELSE q + 1

\* the positive fraction n/d rounded to Precision significant bits
RECURSIVE RoundMag(_, _)
RoundMag(n, d) ==
    IF n >= d * Pow2(Precision)
    THEN LET h == RoundMag(n, 2 * d) IN Norm(2 * h[1], h[2])
    ELSE IF n < d * Pow2(Precision - 1)
    THEN LET h == RoundMag(2 * n, d) IN Norm(h[1], 2 * h[2])
    ELSE <<RoundHalfEven(n, d), 1>>

\* the fraction n/d (d > 0) rounded to the nearest float
Round(n, d) ==
    IF n = 0 THEN Zero
    ELSE IF n > 0 THEN RoundMag(n, d)
    ELSE LET m == RoundMag(-n, d) IN <<-m[1], m[2]>>

FAdd(a, b) == Round(a[1] * b[2] + b[1] * a[2], a[2] * b[2])
FSub(a, b) == Round(a[1] * b[2] - b[1] * a[2], a[2] * b[2])
FMul(a, b) == Round(a[1] * b[1], a[2] * b[2])
\* a / b for b # 0 (a zero divisor is ZeroDivisionError, see TrueDiv)
FDiv(a, b) ==
    IF b[1] > 0 THEN Round(a[1] * b[2], a[2] * b[1])
    ELSE Round(-(a[1] * b[2]), a[2] * (-b[1]))
FMax(a, b) == IF FGt(b, a) THEN b ELSE a

\* ------------------------------------------------------ call outcomes
None == <<>>
Return(v) == [raised |-> FALSE, val |-> v]
Raise(e) == [raised |-> TRUE, error |-> e]

\* Python's a / b on floats
TrueDiv(a, b) == IF b = Zero THEN Raise("ZeroDivisionError") ELSE Return(FDiv(a, b))

\* ------------------------------------------------------------ input sets
Sides == {"long", "short"}
Equities == {F(-1), Zero, F(2), F(MaxEquity)}
Entries == {F(-1), Zero, F(2), F(MaxPrice)}
\* includes the largest leverage below 2^Precision and one large enough for
\* 1/leverage to be absorbed by 1
Leverages == {F(-1), Zero, <<1, 2>>} \cup {F(k) : k \in 1..MaxLeverage}
                \cup {F(Pow2(Precision) - 1), F(Pow2(Precision + 1))}
Stops == {None} \cup {F(k) : k \in 1..3} \cup {F(MaxPrice + 1)}
Risks == {Norm(k, 4) : k \in -1..MaxRiskQuarters}
LivePrices == {F(k) : k \in 0..MaxLive}

RiskInputs ==
    [equity_usd : Equities, entry : Entries, leverage : Leverages,
     side : Sides, stop_loss : Stops, risk_percent : Risks]

\* ------------------------------------------------------------ the engine
\* liquidation_price with the guard leverage < 0
liquidation_price_ZeroAllowed(entry, leverage, side) ==
    IF FLt(leverage, Zero) THEN Raise("ValueError")
    ELSE LET inv == TrueDiv(One, leverage)
         IN  IF inv.raised THEN inv
             ELSE IF side = "long"
             THEN Return(FMul(entry, FSub(One, inv.val)))
             ELSE Return(FMul(entry, FAdd(One, inv.val)))

\* liquidation_price with the two sides' formulas exchanged
liquidation_price_Swapped(entry, leverage, side) ==
    IF FLe(leverage, Zero) THEN Raise("ValueError")
    ELSE LET inv == TrueDiv(One, leverage)
         IN  IF inv.raised THEN inv
             ELSE IF side = "long"
             THEN Return(FMul(entry, FAdd(One, inv.val)))
             ELSE Return(FMul(entry, FSub(One, inv.val)))

liquidation_price(entry, leverage, side) ==
    IF FLe(leverage, Zero) THEN Raise("ValueError")
    ELSE LET inv == TrueDiv(One, leverage)
         IN  IF inv.raised THEN inv
             ELSE IF side = "long"
             THEN Return(FMul(entry, FSub(One, inv.val)))
             ELSE Return(FMul(entry, FAdd(One, inv.val)))

margin_per_unit(entry, leverage) ==
    IF FLe(leverage, Zero) THEN Raise("ValueError")
    ELSE TrueDiv(entry, leverage)

\* max_units_affordable without the mpu <= 0 guard
max_units_affordable_NoGuard(equity_usd, entry, leverage) ==
    LET mpu == margin_per_unit(entry, leverage)
    IN  IF mpu.raised THEN mpu
        ELSE TrueDiv(equity_usd, mpu.val)

max_units_affordable(equity_usd, entry, leverage) ==
    LET mpu == margin_per_unit(entry, leverage)
    IN  IF mpu.raised THEN mpu
        ELSE IF FLe(mpu.val, Zero) THEN Return(Zero)
        ELSE TrueDiv(equity_usd, mpu.val)

per_unit_risk(entry, stop_loss, side) ==
    IF stop_loss = None THEN Return(Zero)
    ELSE IF side = "long"
    THEN Return(FMax(Zero, FSub(entry, stop_loss)))
    ELSE Return(FMax(Zero, FSub(stop_loss, entry)))

safe_units_by_risk(equity_usd, risk_percent, pu_risk) ==
    LET risk_dollar == FMul(equity_usd, FMax(Zero, risk_percent))
    IN  IF FLe(pu_risk, Zero) THEN Return(Zero)
        ELSE TrueDiv(risk_dollar, pu_risk)

\* max() in place of min()
ListMin_Max(xs) ==
    IF Len(xs) = 1 THEN xs[1]
    ELSE IF FGt(xs[2], xs[1]) THEN xs[2] ELSE xs[1]

\* min() of a non-empty list: the first smallest element
ListMin(xs) ==
    IF Len(xs) = 1 THEN xs[1]
    ELSE IF FLt(xs[2], xs[1]) THEN xs[2] ELSE xs[1]

\* the risk cap appended whatever its value
Candidates_Always(max_by_margin, units_by_risk) ==
    <<max_by_margin, units_by_risk>>

\* the caps recommend_units takes the minimum of
Candidates(max_by_margin, units_by_risk) ==
    IF FGt(units_by_risk, Zero)
    THEN <<max_by_margin, units_by_risk>>
    ELSE <<max_by_margin>>

\* the sanity check with strict comparisons
BeyondLiquidation_Strict(side, live_price, liq) ==
    \/ side = "long" /\ FLt(live_price, liq)
    \/ side = "short" /\ FGt(live_price, liq)

\* the liquidation sanity check of recommend_units
BeyondLiquidation(side, live_price, liq) ==
    \/ side = "long" /\ FLe(live_price, liq)
    \/ side = "short" /\ FGe(live_price, liq)

recommend_units(inp, live_price) ==
    LET liq == liquidation_price(inp.entry, inp.leverage, inp.side)
        mpu == margin_per_unit(inp.entry, inp.leverage)
        max_by_margin == max_units_affordable(inp.equity_usd, inp.entry, inp.leverage)
        pu_risk == per_unit_risk(inp.entry, inp.stop_loss, inp.side)
    IN  IF liq.raised THEN liq
        ELSE IF mpu.raised THEN mpu
        ELSE IF max_by_margin.raised THEN max_by_margin
        ELSE IF pu_risk.raised THEN pu_risk
        ELSE
        LET units_by_risk == safe_units_by_risk(inp.equity_usd, inp.risk_percent, pu_risk.val)
        IN  IF units_by_risk.raised THEN units_by_risk
            ELSE
            LET candidates == Candidates(max_by_margin.val, units_by_risk.val)
                min_units == IF Len(candidates) > 0 THEN ListMin(candidates) ELSE Zero
                rec_units == IF BeyondLiquidation(inp.side, live_price, liq.val)
                             THEN Zero ELSE min_units
                capital_margin == FMul(rec_units, mpu.val)
            IN  Return([entry |-> inp.entry,
                        live_price |-> live_price,
                        side |-> inp.side,
                        leverage |-> inp.leverage,
                        equity_usd |-> inp.equity_usd,
                        stop_loss |-> inp.stop_loss,
                        risk_percent |-> inp.risk_percent,
                        liquidation_price |-> liq.val,
                        margin_per_unit |-> mpu.val,
                        max_units_by_margin |-> max_by_margin.val,
                        per_unit_risk |-> pu_risk.val,
                        units_by_risk |-> units_by_risk.val,
                        recommended_units |-> rec_units,
                        recommended_margin_capital |-> capital_margin])

\* ------------------------------------------------------------------ state
VARIABLES
    args,         \* the request: the RiskInput fields (in main, the parsed command line)
    live,         \* the live price handed to the engine; None when the fetch gave none
    fn,           \* engine: the function last applied, "none" before any call
    ret,          \* the outcome of the last engine call
    pc,           \* main: the position in the polling loop ("lib" outside main)
    fx,           \* main: the FX rate of this cycle
    called,       \* main: the live prices recommend_units was called with this cycle
    out,          \* main: what this cycle printed last
    interrupted   \* main: a KeyboardInterrupt was delivered

vars == <<args, live, fn, ret, pc, fx, called, out, interrupted>>

NoResult == Return(None)
Printed(kind) == [kind |-> kind]

\* ------------------------------------------- the engine's functions, called
EngineInit ==
    /\ args \in RiskInputs
    /\ live \in LivePrices
    /\ fn = "none"
    /\ ret = NoResult
    /\ pc = "lib"
    /\ fx = One
    /\ called = <<>>
    /\ out = Printed("none")
    /\ interrupted = FALSE

Applied(name, outcome) ==
    /\ pc = "lib"
    /\ fn = "none"
    /\ fn' = name
    /\ ret' = outcome
    /\ UNCHANGED <<args, live, pc, fx, called, out, interrupted>>

CallLiquidationPrice ==
    Applied("liquidation_price", liquidation_price(args.entry, args.leverage, args.side))

CallMarginPerUnit ==
    Applied("margin_per_unit", margin_per_unit(args.entry, args.leverage))

CallMaxUnitsAffordable ==
    Applied("max_units_affordable",
            max_units_affordable(args.equity_usd, args.entry, args.leverage))

CallPerUnitRisk ==
    Applied("per_unit_risk", per_unit_risk(args.entry, args.stop_loss, args.side))

CallSafeUnitsByRisk ==
    Applied("safe_units_by_risk",
            safe_units_by_risk(args.equity_usd, args.risk_percent,
                               per_unit_risk(args.entry, args.stop_loss, args.side).val))

CallRecommendUnits ==
    Applied("recommend_units", recommend_units(args, live))

EngineNext ==
    \/ CallLiquidationPrice
    \/ CallMarginPerUnit
    \/ CallMaxUnitsAffordable
    \/ CallPerUnitRisk
    \/ CallSafeUnitsByRisk
    \/ CallRecommendUnits

EngineSpec == EngineInit /\ [][EngineNext]_vars

\* ===================================================== claims on the engine
IsCall(name) == pc = "lib" /\ fn = name
PositiveLeverage == FGt(args.leverage, Zero)
Res == ret.val

\* exact (unrounded) comparison of the products a * b and c * d
ProductLe(a, b, c, d) == a[1] * b[1] * c[2] * d[2] <= c[1] * d[1] * a[2] * b[2]

\* live is at or beyond the liquidation boundary of the request's side
AtLiquidation ==
    \/ /\ args.side = "long"
       /\ FLe(live, liquidation_price(args.entry, args.leverage, "long").val)
    \/ /\ args.side = "short"
       /\ FGe(live, liquidation_price(args.entry, args.leverage, "short").val)

\* the stop-loss is present and on the wrong side of entry
MisplacedStop ==
    /\ args.stop_loss # None
    /\ \/ args.side = "long" /\ FGe(args.stop_loss, args.entry)
       \/ args.side = "short" /\ FLe(args.stop_loss, args.entry)

AssessmentKeys ==
    {"entry", "live_price", "side", "leverage", "equity_usd", "stop_loss",
     "risk_percent", "liquidation_price", "margin_per_unit",
     "max_units_by_margin", "per_unit_risk", "units_by_risk",
     "recommended_units", "recommended_margin_capital"}

\* C1: with leverage > 0, whenever the live price is at or beyond the
\* liquidation price of the request's side, recommend_units returns
\* recommended_units = 0 and recommended_margin_capital = 0, whatever the
\* margin-based and risk-based caps are.
C1_LiquidationOverride ==
    (IsCall("recommend_units") /\ PositiveLeverage /\ AtLiquidation)
        => /\ ~ret.raised
           /\ Res.recommended_units = Zero
           /\ Res.recommended_margin_capital = Zero

\* a long request whose caps are both positive, zeroed by the override
C1_Witness ==
    /\ IsCall("recommend_units") /\ PositiveLeverage /\ AtLiquidation
    /\ args.side = "long"
    /\ ~ret.raised
    /\ FGt(Res.max_units_by_margin, Zero)
    /\ FGt(Res.units_by_risk, Zero)
    /\ Res.recommended_units = Zero

\* C2: with leverage > 0, equity > 0, entry > 0 and per_unit_risk > 0, the
\* result satisfies recommended_units * per_unit_risk <= equity *
\* max(0, risk_percent), for every risk_percent including 0 and negatives.
C2_RiskBound ==
    (/\ IsCall("recommend_units") /\ PositiveLeverage
     /\ FGt(args.equity_usd, Zero) /\ FGt(args.entry, Zero)
     /\ ~ret.raised
     /\ FGt(Res.per_unit_risk, Zero))
        => ProductLe(Res.recommended_units, Res.per_unit_risk,
                     args.equity_usd, FMax(Zero, args.risk_percent))

\* C3: with leverage > 0, a request with entry <= 0, or equity <= 0, or a
\* stop-loss on the wrong side of entry, returns without error and with
\* recommended_units = 0, at every live price.
C3_DegenerateZero ==
    (/\ IsCall("recommend_units") /\ PositiveLeverage
     /\ \/ FLe(args.entry, Zero)
        \/ FLe(args.equity_usd, Zero)
        \/ MisplacedStop)
        => /\ ~ret.raised
           /\ Res.recommended_units = Zero

\* C4 as stated: max_units_affordable returns 0 for every equity whenever
\* entry <= 0 or leverage <= 0, and equity / (entry / leverage) otherwise.
C4_Original ==
    IsCall("max_units_affordable")
        => /\ ~ret.raised
           /\ IF FLe(args.entry, Zero) \/ FLe(args.leverage, Zero)
              THEN Res = Zero
              ELSE Res = FDiv(args.equity_usd, FDiv(args.entry, args.leverage))

\* C4: max_units_affordable raises the invalid-leverage error whenever
\* leverage <= 0; with leverage > 0 it returns 0 for every equity whenever
\* entry <= 0, and equity / (entry / leverage) otherwise.
C4_Amended ==
    IsCall("max_units_affordable")
        => IF FLe(args.leverage, Zero)
           THEN ret = Raise("ValueError")
           ELSE /\ ~ret.raised
                /\ IF FLe(args.entry, Zero)
                   THEN Res = Zero
                   ELSE Res = FDiv(args.equity_usd, FDiv(args.entry, args.leverage))

\* a positive equity and a negative entry at a valid leverage give 0 units
C4_Witness ==
    /\ IsCall("max_units_affordable") /\ PositiveLeverage
    /\ FLt(args.entry, Zero)
    /\ FGt(args.equity_usd, Zero)
    /\ ret = Return(Zero)

\* C5: recommend_units ends in the invalid-leverage error exactly when
\* leverage <= 0, whatever the other inputs are; for every leverage > 0 it
\* returns a full assessment, with the stop-loss present or absent.
C5_RaisesIffBadLeverage ==
    IsCall("recommend_units")
        => IF FLe(args.leverage, Zero)
           THEN ret = Raise("ValueError")
           ELSE /\ ~ret.raised
                /\ DOMAIN Res = AssessmentKeys

\* a request with leverage 0 and no stop-loss ends in the error
C5_Witness ==
    /\ IsCall("recommend_units")
    /\ args.leverage = Zero
    /\ args.stop_loss = None
    /\ ret.raised

C8_Original ==
    (/\ IsCall("recommend_units") /\ PositiveLeverage
     /\ FGt(args.entry, Zero) /\ FGe(args.equity_usd, Zero))
        => /\ ~ret.raised
           /\ FLe(Zero, Res.recommended_units)
           /\ FLe(Res.recommended_units, Res.max_units_by_margin)
           /\ FLe(Zero, Res.recommended_margin_capital)
           /\ FLe(Res.recommended_margin_capital, args.equity_usd)

\* C8: with leverage > 0, entry > 0 and equity >= 0,
\* 0 <= recommended_units <= max_units_by_margin and
\* 0 <= recommended_margin_capital <= equity * (1 + 3 / 2^Precision): the
\* margin capital stays within equity up to the rounding of the quotient
\* equity / margin_per_unit and of the product units * margin_per_unit.
C8_Amended ==
    (/\ IsCall("recommend_units") /\ PositiveLeverage
     /\ FGt(args.entry, Zero) /\ FGe(args.equity_usd, Zero))
        => /\ ~ret.raised
           /\ FLe(Zero, Res.recommended_units)
           /\ FLe(Res.recommended_units, Res.max_units_by_margin)
           /\ FLe(Zero, Res.recommended_margin_capital)
           /\ ProductLe(Res.recommended_margin_capital, F(Pow2(Precision)),
                        args.equity_usd, F(Pow2(Precision) + 3))

\* the margin cap is the one chosen and uses up the whole equity
C8_Witness ==
    /\ IsCall("recommend_units") /\ PositiveLeverage /\ ~AtLiquidation
    /\ FGt(args.entry, Zero) /\ FGt(args.equity_usd, Zero)
    /\ ~ret.raised
    /\ FGt(Res.units_by_risk, Res.max_units_by_margin)
    /\ Res.recommended_units = Res.max_units_by_margin
    /\ Res.recommended_margin_capital = args.equity_usd

\* ------------------------------------------------------------ the feeds
\* what the exchange answers to fetch_ticker: an exception or a ticker
TickerValues == {None, Zero, F(1), F(MaxLive)}
Tickers ==
    {[ok |-> FALSE]}
        \cup [ok : {TRUE}, last : {None} \cup LivePrices,
              bid : TickerValues, ask : TickerValues]

Truthy(x) == x # None /\ x # Zero

\* LiveData.fetch_price
fetch_price(ticker) ==
    IF ~ticker.ok THEN None
    ELSE IF ticker.last # None THEN ticker.last
    ELSE IF Truthy(ticker.bid) /\ Truthy(ticker.ask)
    THEN FDiv(FAdd(ticker.bid, ticker.ask), F(2))
    ELSE None

Upper(code) ==
    IF code = "usd" THEN "USD"
    ELSE IF code = "eur" THEN "EUR"
    ELSE code

\* what the rate service answers: an exception or the rate found (or None)
FxResponses == {[ok |-> FALSE]} \cup [ok : {TRUE}, rate : {None, Zero, F(2)}]

fetch_fx_rate(base, quote, response) ==
    IF Upper(base) = Upper(quote) THEN One
    ELSE IF response.ok /\ Truthy(response.rate) THEN response.rate
    ELSE One

\* --------------------------------------------------------------- main
CommandLines ==
    [equity_usd : {F(2), F(MaxEquity)}, entry : {F(2), F(MaxPrice)},
     leverage : Leverages, side : Sides,
     stop_loss : {None, F(1), F(MaxPrice + 1)},
     risk_percent : {Zero, <<1, 4>>},
     quote_currency : {"USD"}, display_currency : {"USD", "usd", "EUR"}]

\* RiskInput(...) as main builds it from the parsed arguments
RiskInput(a) ==
    [equity_usd |-> a.equity_usd, entry |-> a.entry, leverage |-> a.leverage,
     side |-> a.side, stop_loss |-> a.stop_loss, risk_percent |-> a.risk_percent]

InTry == {"fetch", "fetchfx", "check", "render", "sleep"}
InHandler == {"except", "errsleep"}
Stopped == {"done", "killed"}

Init ==
    /\ args \in CommandLines
    /\ live = None
    /\ fn = "none"
    /\ ret = NoResult
    /\ pc = "fetch"
    /\ fx = One
    /\ called = <<>>
    /\ out = Printed("none")
    /\ interrupted = FALSE

\* a new cycle: fetch the price
FetchPrice ==
    /\ pc = "fetch"
    /\ \E ticker \in Tickers : live' = fetch_price(ticker)
    /\ called' = <<>>
    /\ ret' = NoResult
    /\ out' = Printed("none")
    /\ pc' = "fetchfx"
    /\ UNCHANGED <<args, fn, fx, interrupted>>

\* fetch the FX rate for the display currency
FetchFx ==
    /\ pc = "fetchfx"
    /\ \E response \in FxResponses :
        fx' = fetch_fx_rate(args.quote_currency, args.display_currency, response)
    /\ pc' = "check"
    /\ UNCHANGED <<args, live, fn, ret, called, out, interrupted>>

\* the warning without the continue: the engine is called with None
SkipNoPrice_FallsThrough ==
    /\ pc = "check"
    /\ live = None
    /\ out' = Printed("warn")
    /\ called' = Append(called, live)
    /\ ret' = Raise("TypeError")
    /\ pc' = "except"
    /\ UNCHANGED <<args, live, fn, fx, interrupted>>

\* no price: warn, wait the interval, continue
SkipNoPrice ==
    /\ pc = "check"
    /\ live = None
    /\ out' = Printed("warn")
    /\ pc' = "sleep"
    /\ UNCHANGED <<args, live, fn, ret, fx, called, interrupted>>

\* a price: build the RiskInput and call recommend_units
Evaluate ==
    /\ pc = "check"
    /\ live # None
    /\ called' = Append(called, live)
    /\ ret' = recommend_units(RiskInput(args), live)
    /\ pc' = IF ret'.raised THEN "except" ELSE "render"
    /\ UNCHANGED <<args, live, fn, fx, out, interrupted>>

\* print the assessment, converted for display
Render ==
    /\ pc = "render"
    /\ out' = [kind |-> "report",
               live |-> live,
               eq_disp |-> FMul(args.equity_usd, fx),
               margin_unit_disp |-> FMul(ret.val.margin_per_unit, fx),
               rec_margin_disp |-> FMul(ret.val.recommended_margin_capital, fx),
               recommended_units |-> ret.val.recommended_units]
    /\ pc' = "sleep"
    /\ UNCHANGED <<args, live, fn, ret, fx, called, interrupted>>

\* the handler reporting the error and leaving the loop
HandleException_Breaks ==
    /\ pc = "except"
    /\ out' = [kind |-> "error", error |-> ret.error]
    /\ pc' = "done"
    /\ UNCHANGED <<args, live, fn, ret, fx, called, interrupted>>

\* except Exception: report the error
HandleException ==
    /\ pc = "except"
    /\ out' = [kind |-> "error", error |-> ret.error]
    /\ pc' = "errsleep"
    /\ UNCHANGED <<args, live, fn, ret, fx, called, interrupted>>

\* time.sleep(interval) inside the try block returns
Sleep ==
    /\ pc = "sleep"
    /\ pc' = "fetch"
    /\ UNCHANGED <<args, live, fn, ret, fx, called, out, interrupted>>

\* time.sleep(interval) inside the exception handler returns
ErrSleep ==
    /\ pc = "errsleep"
    /\ pc' = "fetch"
    /\ UNCHANGED <<args, live, fn, ret, fx, called, out, interrupted>>

\* Ctrl+C: caught inside the try block, uncaught inside the handler
Interrupt ==
    /\ pc \in InTry \cup InHandler
    /\ interrupted' = TRUE
    /\ IF pc \in InTry
       THEN /\ out' = Printed("exit")
            /\ pc' = "done"
       ELSE /\ out' = out
            /\ pc' = "killed"
    /\ UNCHANGED <<args, live, fn, ret, fx, called>>

Next ==
    \/ FetchPrice
    \/ FetchFx
    \/ SkipNoPrice
    \/ Evaluate
    \/ Render
    \/ HandleException
    \/ Sleep
    \/ ErrSleep
    \/ Interrupt

Spec == Init /\ [][Next]_vars

\* ================================================ claims on the polling loop
\* C9: in a cycle whose fetch gave no price recommend_units is not called and
\* nothing is rendered; the loop warns, waits the interval and starts the
\* next cycle.  In a cycle with a price recommend_units is called exactly
\* once, with that price, before anything is rendered or reported.
C9_CycleStep ==
    /\ (pc = "check" /\ live = None) =>
           \/ pc' = "sleep" /\ out'.kind = "warn" /\ called' = <<>>
           \/ pc' = "done"
    /\ (pc' \in InTry \cup InHandler /\ pc' # "fetch" /\ live' = None) =>
           /\ called' = <<>>
           /\ out'.kind # "report"
           /\ pc' \in {"fetchfx", "check", "sleep"}
    /\ (pc' \in {"render", "except", "errsleep"}) =>
           /\ live' # None
           /\ called' = <<live'>>
    /\ (pc' = "sleep" /\ live' # None) =>
           /\ called' = <<live'>>
           /\ out'.kind = "report"
           /\ out'.live = live'
           /\ ret'.val.live_price = live'
    /\ (pc = "sleep" /\ pc' \notin Stopped) => pc' = "fetch"

C10_LoopStep ==
    /\ (pc = "check" /\ live # None /\ FLe(args.leverage, Zero)
            /\ pc' \notin Stopped) => pc' = "except"
    /\ (pc = "except" /\ pc' \notin Stopped) =>
           /\ pc' = "errsleep"
           /\ out' = [kind |-> "error", error |-> "ValueError"]
    /\ (pc = "errsleep" /\ pc' \notin Stopped) => pc' = "fetch"
    /\ (pc \notin Stopped /\ pc' \in Stopped) => (~interrupted /\ interrupted')
    /\ (pc \in Stopped) => pc' = pc

====
